---- MODULE Spec2Model ----
(***************************************************************************)
(* Model of the service-charge benchmark (src/app.py): the postal locator, *)
(* the verified-subset aggregator, the trend builder, the verdict          *)
(* classifier, the forecaster and the /search handler.                     *)
(*                                                                         *)
(* Strings are sequences of one-character strings.  Python floats are      *)
(* modelled as exact rationals <<numerator, denominator>> in lowest terms  *)
(* with a positive denominator; Python's None is the empty tuple.          *)
(***************************************************************************)
EXTENDS Integers, Sequences, FiniteSets, TLC

VARIABLES df, london_stats_raw, london_trend_raw, request, response

vars == <<df, london_stats_raw, london_trend_raw, request, response>>

None == <<>>

(***************************************************************************)
(* Characters and the str methods used by the code                         *)
(***************************************************************************)
LowerAlphabet == <<"a", "l", "n", "o", "w", "z">>
UpperAlphabet == <<"A", "L", "N", "O", "W", "Z">>
UpperLetters == {UpperAlphabet[i] : i \in DOMAIN UpperAlphabet}
LowerLetters == {LowerAlphabet[i] : i \in DOMAIN LowerAlphabet}
Digits == {"1", "9"}
Whitespace == {" ", "\t"}

IsLetter(c) == c \in UpperLetters \cup LowerLetters
IsUpperLetter(c) == c \in UpperLetters
IsDigit(c) == c \in Digits
IsSpace(c) == c \in Whitespace
IsWordChar(c) == IsLetter(c) \/ IsDigit(c) \/ c = "_"

UpperChar(c) ==
    IF c \in LowerLetters
    THEN UpperAlphabet[CHOOSE i \in DOMAIN LowerAlphabet : LowerAlphabet[i] = c]
    ELSE c

upper(s) == [i \in 1..Len(s) |-> UpperChar(s[i])]

RECURSIVE lstrip(_)
lstrip(s) == IF s # <<>> /\ IsSpace(Head(s)) THEN lstrip(Tail(s)) ELSE s

RECURSIVE rstrip(_)
rstrip(s) ==
    IF s # <<>> /\ IsSpace(s[Len(s)]) THEN rstrip(SubSeq(s, 1, Len(s) - 1)) ELSE s

strip(s) == rstrip(lstrip(s))

\* str.replace("  ", " "): non-overlapping occurrences, left to right
RECURSIVE replace_2sp(_)
replace_2sp(s) ==
    IF Len(s) < 2 THEN s
    ELSE IF s[1] = " " /\ s[2] = " "
         THEN <<" ">> \o replace_2sp(SubSeq(s, 3, Len(s)))
         ELSE <<s[1]>> \o replace_2sp(Tail(s))

\* postcode.strip().upper().replace("  ", " ")
normalize(postcode) == replace_2sp(upper(strip(postcode)))

(***************************************************************************)
(* Postal locator                                                          *)
(***************************************************************************)
\* ^\s*([A-Z]{1,2}\d{1,2}[A-Z]?)\s*\d[A-Z]{2}\s*$ with re.I: the set of the
\* values group(1) takes over all the ways the pattern matches pc
POSTCODE_RE(pc) ==
    LET n == Len(pc)
        AllIn(a, b, P(_)) == \A i \in a..b : P(pc[i])
    IN { SubSeq(pc, lead + 1, lead + l + d + t) :
           <<lead, l, d, t, gap>> \in
             { x \in (0..n) \X (1..2) \X (1..2) \X (0..1) \X (0..n) :
                 LET o == x[1] + x[2] + x[3] + x[4]
                     q == o + x[5]
                 IN /\ q + 3 <= n
                    /\ AllIn(1, x[1], IsSpace)
                    /\ AllIn(x[1] + 1, x[1] + x[2], IsLetter)
                    /\ AllIn(x[1] + x[2] + 1, x[1] + x[2] + x[3], IsDigit)
                    /\ AllIn(x[1] + x[2] + x[3] + 1, o, IsLetter)
                    /\ AllIn(o + 1, q, IsSpace)
                    /\ IsDigit(pc[q + 1])
                    /\ IsLetter(pc[q + 2])
                    /\ IsLetter(pc[q + 3])
                    /\ AllIn(q + 4, n, IsSpace) } }

\* mutant: the pattern is matched against the postcode as given
parse_district_raw(postcode) ==
    LET m == POSTCODE_RE(postcode)
    IN IF m = {} THEN None ELSE CHOOSE g \in m : TRUE

parse_district(postcode) ==
    LET pc == normalize(postcode)
        m == POSTCODE_RE(pc)
    IN IF m = {} THEN None ELSE CHOOSE g \in m : TRUE

\* re.search(r"\b(\d)[A-Z]{2}\b", pc): the start positions of the matches
INWARD_RE(pc) ==
    { i \in 1..(Len(pc) - 2) :
        /\ IsDigit(pc[i])
        /\ IsUpperLetter(pc[i + 1])
        /\ IsUpperLetter(pc[i + 2])
        /\ (i = 1 \/ ~IsWordChar(pc[i - 1]))
        /\ (i + 2 = Len(pc) \/ ~IsWordChar(pc[i + 3])) }

\* mutant: re.search(r"(\d)", pc), the first digit of the postcode
derive_sector_first_digit(postcode, district) ==
    LET pc == normalize(postcode)
        hits == {i \in 1..Len(pc) : IsDigit(pc[i])}
    IN IF INWARD_RE(pc) = {} THEN None
       ELSE LET first == CHOOSE i \in hits : \A j \in hits : i <= j
            IN district \o <<" ">> \o <<pc[first]>>

derive_sector_from_postcode(postcode, district) ==
    LET pc == normalize(postcode)
        hits == INWARD_RE(pc)
    IN IF hits = {} THEN None
       ELSE LET first == CHOOSE i \in hits : \A j \in hits : i <= j
            IN district \o <<" ">> \o <<pc[first]>>

(***************************************************************************)
(* Numbers: exact rationals for Python floats                              *)
(***************************************************************************)
Abs(x) == IF x < 0 THEN -x ELSE x

RECURSIVE GCD(_, _)
GCD(a, b) == IF b = 0 THEN a ELSE GCD(b, a % b)

Rat(n, d) ==
    LET g == GCD(Abs(n), Abs(d))
        s == IF d < 0 THEN -1 ELSE 1
    IN <<(s * n) \div g, (s * d) \div g>>

float(x) == <<x, 1>>
RatAdd(a, b) == Rat(a[1] * b[2] + b[1] * a[2], a[2] * b[2])
RatSub(a, b) == Rat(a[1] * b[2] - b[1] * a[2], a[2] * b[2])
RatMul(a, b) == Rat(a[1] * b[1], a[2] * b[2])
RatDiv(a, b) == Rat(a[1] * b[2], a[2] * b[1])
RatLe(a, b) == a[1] * b[2] <= b[1] * a[2]
\* used by the mutant of verdict only
RatLt(a, b) == a[1] * b[2] < b[1] * a[2]

\* Naturals beyond 32 bits: little-endian limbs in base Limb,
\* without leading zero limbs (zero is the empty tuple)
Limb == 100 * 100

RECURSIVE Big(_)
Big(n) == IF n = 0 THEN <<>> ELSE <<n % Limb>> \o Big(n \div Limb)

RECURSIVE BigMulCarry(_, _, _)
BigMulCarry(x, m, c) ==
    IF x = <<>> THEN Big(c)
    ELSE LET t == Head(x) * m + c
         IN <<t % Limb>> \o BigMulCarry(Tail(x), m, t \div Limb)

\* x * m for a bignum x and an integer 0 <= m <= Limb * Limb
BigMul(x, m) == IF m = 0 THEN <<>> ELSE BigMulCarry(x, m, 0)

RECURSIVE BigMulPow(_, _, _)
BigMulPow(x, m, k) == IF k = 0 THEN x ELSE BigMulPow(BigMul(x, m), m, k - 1)

RECURSIVE BigLe(_, _)
BigLe(x, y) ==
    IF Len(x) # Len(y) THEN Len(x) < Len(y)
    ELSE IF x = <<>> THEN TRUE
    ELSE IF x[Len(x)] # y[Len(y)] THEN x[Len(x)] < y[Len(y)]
    ELSE BigLe(SubSeq(x, 1, Len(x) - 1), SubSeq(y, 1, Len(y) - 1))

\* a * g ** k for rationals a and g > 0: the value
\* (neg ? -1 : 1) * num / (den * base ^ exp), num a bignum
RatTimesPow(a, g, k) ==
    [neg |-> a[1] < 0,
     num |-> BigMulPow(Big(Abs(a[1])), g[1], k),
     den |-> a[2], base |-> g[2], exp |-> k]

(***************************************************************************)
(* Settings                                                                *)
(***************************************************************************)
INFLATION_RATE == Rat(3, 100)
FORECAST_YEARS == 5
LOW_BAND == Rat(90, 100)
HIGH_BAND == Rat(110, 100)
EXCLUDE_RELIABILITY == {<<"L", "O", "W">>}

(***************************************************************************)
(* Table cells and columns.  A cell is <<"num", v>> (a number),            *)
(* <<"date", y>> (a date of year y), <<"txt", s>> (any other text) or      *)
(* <<"nan">> (missing).                                                    *)
(***************************************************************************)
NaN == <<"nan">>
Num(v) == <<"num", v>>
Date(y) == <<"date", y>>
Txt(s) == <<"txt", s>>

c_sector == "Sector"
c_reliability == "Reliability"
c_annual == "Annual"
c_monthly == "Monthly"
c_psf == "Psf"
c_psm == "Psm"
c_end == "End"
c_year == "VintageYear"

Column(g, c) == [i \in 1..Len(g) |-> g[i][c]]

\* pd.to_numeric(s, errors="coerce") on one cell
to_numeric(c) == IF c[1] = "num" THEN c ELSE NaN

\* pd.to_datetime(s, errors="coerce").dt.year on one cell
to_datetime_year(c) == IF c[1] = "date" THEN Num(c[2]) ELSE NaN

\* astype(str) on one cell of a text column
astype_str(c) == IF c[1] = "txt" THEN c[2] ELSE <<"n", "a", "n">>

\* pd.to_numeric(s, errors="coerce").dropna(): the numbers left, in order
RECURSIVE numeric_dropna(_)
numeric_dropna(s) ==
    IF s = <<>> THEN <<>>
    ELSE IF to_numeric(Head(s)) = NaN THEN numeric_dropna(Tail(s))
         ELSE <<to_numeric(Head(s))[2]>> \o numeric_dropna(Tail(s))

RECURSIVE insert_sorted(_, _)
insert_sorted(x, s) ==
    IF s = <<>> THEN <<x>>
    ELSE IF x <= Head(s) THEN <<x>> \o s
         ELSE <<Head(s)>> \o insert_sorted(x, Tail(s))

RECURSIVE sort_values(_)
sort_values(s) ==
    IF s = <<>> THEN <<>> ELSE insert_sorted(Head(s), sort_values(Tail(s)))

\* mutant: the lower of the two central values, not their average
median_lower(s) ==
    LET v == sort_values(s)
    IN float(v[(Len(v) + 1) \div 2])

\* Series.median() of a non-empty sequence of numbers
median(s) ==
    LET v == sort_values(s)
        n == Len(v)
    IN IF n % 2 = 1 THEN float(v[(n + 1) \div 2])
       ELSE Rat(v[n \div 2] + v[n \div 2 + 1], 2)

safe_median(s) ==
    LET s2 == numeric_dropna(s)
    IN IF Len(s2) # 0 THEN median(s2) ELSE None

safe_count(s) == Len(numeric_dropna(s))

(***************************************************************************)
(* Verdict classifier and forecaster                                       *)
(***************************************************************************)
\* mutant: the bands exclude their upper bound
verdict_strict(sector_med, london_med) ==
    IF sector_med = None \/ london_med = None THEN "N/A"
    ELSE IF RatLt(sector_med, RatMul(london_med, LOW_BAND)) THEN "Low"
    ELSE IF RatLt(sector_med, RatMul(london_med, HIGH_BAND)) THEN "Fair"
    ELSE "High"

verdict(sector_med, london_med) ==
    IF sector_med = None \/ london_med = None THEN "N/A"
    ELSE IF RatLe(sector_med, RatMul(london_med, LOW_BAND)) THEN "Low"
    ELSE IF RatLe(sector_med, RatMul(london_med, HIGH_BAND)) THEN "Fair"
    ELSE "High"

forecast_year_value(base_yearly, years) ==
    IF base_yearly = None THEN None
    ELSE RatTimesPow(base_yearly, RatAdd(float(1), INFLATION_RATE), years)

\* the loop of forecast_rows: rows after the iterations i = from..FORECAST_YEARS
RECURSIVE forecast_loop(_, _, _)
forecast_loop(base_yearly, i, rows) ==
    IF i > FORECAST_YEARS THEN rows
    ELSE LET proj == RatTimesPow(base_yearly, RatAdd(float(1), INFLATION_RATE), i)
         IN forecast_loop(base_yearly, i + 1, Append(rows, <<i, proj>>))

\* mutant: range(FORECAST_YEARS + 1), the offsets starting at 0
forecast_rows_from_zero(base_yearly) ==
    IF base_yearly = None THEN <<>> ELSE forecast_loop(base_yearly, 0, <<>>)

forecast_rows(base_yearly) ==
    IF base_yearly = None THEN <<>> ELSE forecast_loop(base_yearly, 1, <<>>)

(***************************************************************************)
(* Data load, aggregator and trend builder                                 *)
(***************************************************************************)
\* lines 120-126: the derived columns _rel_clean and _year
\* mutant: the end-date year is taken row by row, wherever the vintage year is
\* not numeric
load_data_per_row(csv) ==
    LET vintage == [i \in 1..Len(csv) |-> to_numeric(csv[i][c_year])]
    IN [i \in 1..Len(csv) |->
          [c \in DOMAIN csv[i] \cup {"_rel_clean", "_year"} |->
             IF c = "_rel_clean" THEN upper(strip(astype_str(csv[i][c_reliability])))
             ELSE IF c = "_year"
                  THEN IF vintage[i] = NaN THEN to_datetime_year(csv[i][c_end])
                       ELSE vintage[i]
                  ELSE csv[i][c]]]

load_data(csv) ==
    LET vintage == [i \in 1..Len(csv) |-> to_numeric(csv[i][c_year])]
        all_na == \A i \in 1..Len(csv) : vintage[i] = NaN
    IN [i \in 1..Len(csv) |->
          [c \in DOMAIN csv[i] \cup {"_rel_clean", "_year"} |->
             IF c = "_rel_clean" THEN upper(strip(astype_str(csv[i][c_reliability])))
             ELSE IF c = "_year"
                  THEN IF all_na THEN to_datetime_year(csv[i][c_end]) ELSE vintage[i]
                  ELSE csv[i][c]]]

IsVerifiedRow(r) == r["_rel_clean"] \notin EXCLUDE_RELIABILITY

\* mutant: the raw tag is compared, without trimming and uppercasing
apply_verified_filter_raw(g) ==
    SelectSeq(g, LAMBDA r : astype_str(r[c_reliability]) \notin EXCLUDE_RELIABILITY)

apply_verified_filter(g) == SelectSeq(g, IsVerifiedRow)

compute_stats(g) ==
    LET g2 == apply_verified_filter(g)
    IN [n |-> safe_count(Column(g2, c_annual)),
        median_year |-> safe_median(Column(g2, c_annual)),
        median_month |-> safe_median(Column(g2, c_monthly)),
        median_psf |-> safe_median(Column(g2, c_psf)),
        median_psm |-> safe_median(Column(g2, c_psm))]

HasYear(r) == r["_year"] # NaN

\* sorted(g2["_year"].dropna().unique())
sorted_years(g2) ==
    LET ys == {g2[i]["_year"][2] : i \in 1..Len(g2)}
        RECURSIVE asc(_)
        asc(S) == IF S = {} THEN <<>>
                  ELSE LET m == CHOOSE x \in S : \A y \in S : x <= y
                       IN <<m>> \o asc(S \ {m})
    IN asc(ys)

\* mutant: n is len(gy), the rows of the year, coercible or not
RECURSIVE trend_loop_all_rows(_, _, _)
trend_loop_all_rows(g2, years, out) ==
    IF years = <<>> THEN out
    ELSE LET yr == Head(years)
             gy == SelectSeq(g2, LAMBDA r : r["_year"] = Num(yr))
             med == safe_median(Column(gy, c_annual))
         IN trend_loop_all_rows(g2, Tail(years),
                IF med # None
                THEN Append(out, [year |-> yr, median_year |-> med, n |-> Len(gy)])
                ELSE out)

RECURSIVE trend_loop(_, _, _)
trend_loop(g2, years, out) ==
    IF years = <<>> THEN out
    ELSE LET yr == Head(years)
             gy == SelectSeq(g2, LAMBDA r : r["_year"] = Num(yr))
             med == safe_median(Column(gy, c_annual))
             n == safe_count(Column(gy, c_annual))
         IN trend_loop(g2, Tail(years),
                       IF med # None
                       THEN Append(out, [year |-> yr, median_year |-> med, n |-> n])
                       ELSE out)

compute_trend_by_year(g) ==
    LET g2 == SelectSeq(apply_verified_filter(g), HasYear)
    IN IF g2 = <<>> THEN <<>> ELSE trend_loop(g2, sorted_years(g2), <<>>)

RECURSIVE yoy_loop(_, _, _)
yoy_loop(trend_list, prev, out) ==
    IF trend_list = <<>> THEN out
    ELSE LET row == Head(trend_list)
             yoy == IF prev # None /\ prev # float(0)
                    THEN RatMul(RatDiv(RatSub(row.median_year, prev), prev),
                                float(100))
                    ELSE None
         IN yoy_loop(Tail(trend_list), row.median_year,
                     Append(out, [year |-> row.year, median_year |-> row.median_year,
                                  n |-> row.n, yoy |-> yoy]))

\* mutant: every change is taken against the first point of the sequence
RECURSIVE yoy_loop_first(_, _, _)
yoy_loop_first(trend_list, prev, out) ==
    IF trend_list = <<>> THEN out
    ELSE LET row == Head(trend_list)
             yoy == IF prev # None /\ prev # float(0)
                    THEN RatMul(RatDiv(RatSub(row.median_year, prev), prev),
                                float(100))
                    ELSE None
         IN yoy_loop_first(Tail(trend_list),
                           IF prev = None THEN row.median_year ELSE prev,
                           Append(out, [year |-> row.year,
                                        median_year |-> row.median_year,
                                        n |-> row.n, yoy |-> yoy]))

add_yoy_first(trend_list) == yoy_loop_first(trend_list, None, <<>>)

add_yoy(trend_list) == yoy_loop(trend_list, None, <<>>)

(***************************************************************************)
(* The /search handler.  response is <<>> before the first request and     *)
(* <<ctx>> afterwards, ctx being the context handed to the template with   *)
(* its raw values (the fmt_* display strings are left to the template).    *)
(***************************************************************************)
ERR_EMPTY == <<"Enter a postcode.">>
ERR_FORMAT == <<"Invalid postcode format (try e.g., E14 9AZ).">>
ERR_SECTOR == <<"Could not derive sector from postcode.">>

error_page(pc, error) == [postcode |-> pc, error |-> error, sector |-> None]

\* df[df[c_sector].astype(str).str.strip().str.upper() == sector]
sector_slice(data, sector) ==
    SelectSeq(data, LAMBDA r : upper(strip(astype_str(r[c_sector]))) = sector)

\* {int(r["year"]): float(r["median_year"]) for r in trend}
trend_dict(trend) ==
    LET years == {trend[i].year : i \in 1..Len(trend)}
    IN [y \in years |->
          LET last == CHOOSE i \in 1..Len(trend) :
                        /\ trend[i].year = y
                        /\ \A j \in 1..Len(trend) : trend[j].year = y => j <= i
          IN trend[last].median_year]

\* sorted(set(london_trend.keys()) | set(sector_trend.keys()))
sorted_union(a, b) ==
    LET RECURSIVE asc(_)
        asc(S) == IF S = {} THEN <<>>
                  ELSE LET m == CHOOSE x \in S : \A y \in S : x <= y
                       IN <<m>> \o asc(S \ {m})
    IN asc(a \cup b)

\* mutant: trend.get(y, 0)
bench_vals_zero(trend, all_years) ==
    [i \in 1..Len(all_years) |->
       IF all_years[i] \in DOMAIN trend THEN trend[all_years[i]] ELSE float(0)]

\* [trend.get(y, None) for y in all_years]
bench_vals(trend, all_years) ==
    [i \in 1..Len(all_years) |->
       IF all_years[i] \in DOMAIN trend THEN trend[all_years[i]] ELSE None]

result_page(pc, district, sector) ==
    LET g_sector == sector_slice(df, sector)
        sector_stats_raw == compute_stats(g_sector)
        sector_trend_raw == add_yoy(compute_trend_by_year(g_sector))
        london_trend == trend_dict(london_trend_raw)
        sector_trend == trend_dict(compute_trend_by_year(g_sector))
        all_years == sorted_union(DOMAIN london_trend, DOMAIN sector_trend)
    IN [postcode |-> pc,
        postcode_display |-> normalize(pc),
        error |-> None,
        sector |-> sector,
        district |-> district,
        sector_stats |-> sector_stats_raw,
        sector_n |-> sector_stats_raw.n,
        london_stats |-> london_stats_raw,
        verdict |-> verdict(sector_stats_raw.median_year,
                            london_stats_raw.median_year),
        year5 |-> forecast_year_value(sector_stats_raw.median_year, FORECAST_YEARS),
        forecast_rows |-> forecast_rows(sector_stats_raw.median_year),
        trend |-> sector_trend_raw,
        bench_years |-> all_years,
        bench_sector |-> bench_vals(sector_trend, all_years),
        bench_london |-> bench_vals(london_trend, all_years)]

\* mutant: the postcode is not trimmed before the checks
search_page_untrimmed(postcode) ==
    LET pc == postcode
        district == parse_district(pc)
        sector == derive_sector_from_postcode(pc, district)
    IN IF pc = <<>> THEN error_page(<<>>, ERR_EMPTY)
       ELSE IF district = None THEN error_page(pc, ERR_FORMAT)
       ELSE IF sector = None THEN error_page(pc, ERR_SECTOR)
       ELSE result_page(pc, district, sector)

search_page(postcode) ==
    LET pc == strip(postcode)
        district == parse_district(pc)
        sector == derive_sector_from_postcode(pc, district)
    IN IF pc = <<>> THEN error_page(<<>>, ERR_EMPTY)
       ELSE IF district = None THEN error_page(pc, ERR_FORMAT)
       ELSE IF sector = None THEN error_page(pc, ERR_SECTOR)
       ELSE result_page(pc, district, sector)

\* mutant: the reference stats are overwritten by the last result's stats
search_caching(postcode) ==
    /\ request' = [fn |-> "search", args |-> <<postcode>>]
    /\ response' = <<search_page(postcode)>>
    /\ london_stats_raw' = IF search_page(postcode).error = None
                           THEN search_page(postcode).sector_stats
                           ELSE london_stats_raw
    /\ UNCHANGED <<df, london_trend_raw>>

search(postcode) ==
    /\ request' = [fn |-> "search", args |-> <<postcode>>]
    /\ response' = <<search_page(postcode)>>
    /\ UNCHANGED <<df, london_stats_raw, london_trend_raw>>

(***************************************************************************)
(* Inputs of the model                                                     *)
(***************************************************************************)
MaxRows == 3
MaxLen == 5
MaxHalves == 24
MaxPoints == 3

Str_A19 == <<"A", "1", " ", "9">>
Str_a19 == <<" ", "a", "1", " ", "9">>
Str_Z11 == <<"Z", "1", " ", "1">>
Str_na == <<"n", "a">>
Tag_OK == <<"A">>
Tag_LOW == <<"L", "O", "W">>
Tag_low == <<" ", "l", "o", "w", " ">>

MkRow(sector, rel, annual, monthly, psf, psm, end, year) ==
    [Sector |-> sector, Reliability |-> rel, Annual |-> annual,
     Monthly |-> monthly, Psf |-> psf, Psm |-> psm, End |-> end,
     VintageYear |-> year]

SampleRows ==
    { MkRow(Txt(Str_A19), Txt(Tag_OK), Num(1000), Num(80), Num(2), Num(20),
            Date(2021), Num(2021)),
      MkRow(Txt(Str_a19), NaN, Num(1100), NaN, Num(4), NaN,
            Date(2023), Num(2023)),
      MkRow(Txt(Str_A19), Txt(Tag_OK), Txt(Str_na), Num(90), NaN, Num(30),
            Date(2022), Num(2022)),
      MkRow(Txt(Str_A19), Txt(Tag_low), Num(400), Num(30), Num(1), Num(10),
            Date(2021), Num(2022)),
      MkRow(Txt(Str_Z11), Txt(Tag_OK), Num(0), Num(0), Num(0), Num(0),
            Date(2022), Num(2022)),
      MkRow(Txt(Str_Z11), Txt(Tag_OK), Num(995), Num(85), Num(3), Num(25),
            Date(2023), NaN),
      MkRow(Txt(Str_a19), Txt(Tag_LOW), Num(5000), Num(400), Num(9), Num(90),
            Date(2022), Txt(Str_na)) }

RECURSIVE SeqsUpTo(_, _)
SeqsUpTo(S, n) ==
    IF n = 0 THEN {<<>>}
    ELSE LET shorter == SeqsUpTo(S, n - 1)
         IN shorter \cup {Append(s, x) : s \in shorter, x \in S}

Datasets == SeqsUpTo(SampleRows, MaxRows)

Queries ==
    { <<>>, <<"Z", "Z", "Z", "Z">>,
      <<"A", "1", "9", "A", "A">>,
      <<" ", "a", "1", " ", " ", "9", "z", "z", " ">>,
      <<"Z", "1", "\t", "1", "A", "A">>,
      <<"Z", "9", " ", "1", "A", "A">> }

\* every string of at most MaxLen characters of Sigma, and the longer samples
Sigma == {"A", "z", "1", "9", " "}

SamplePostcodes ==
    Queries \cup
    { <<" ", " ">>, <<"-">>,
      <<"A", "1", " ", "9", "A", "Z">>,
      <<"A", "1", " ", "1", "z", "z">>,
      <<"A", "1", " ", " ", " ", "9", "A", "A">>,
      <<"\t", "A", "1", " ", " ", " ", " ", "9", "A", "A", " ", " ">>,
      <<"A", "1", " ", "\t", "9", "A", "A">>,
      <<"A", "z", "1", "9", "A", " ", " ", "9", "z", "A">>,
      <<"A", "1", "1", "1", "A", "A">>,
      <<"A", "1", "A", "1", "A", "A">>,
      <<"A", "1", "-", "9", "A", "A">>,
      <<"A", "1", " ", "9", "A", "A", "A">>,
      <<"A", "A", "A", "1", " ", "9", "A", "A">>,
      <<"1", "A", " ", "9", "A", "A">>,
      <<"A", "1", " ", "9", "A", "A", " ", "9", "A", "A">> }

Postcodes == SeqsUpTo(Sigma, MaxLen) \cup SamplePostcodes

\* medians: the multiples of 1/2 from -1 to MaxHalves / 2, and the documented cases
Amounts ==
    {Rat(k, 2) : k \in (-2)..MaxHalves} \cup
    {float(v) : v \in {-1000, 900, 901, 990, 1000, 1100, 1101}}

Medians == Amounts \cup {None}

TrendPoints ==
    [year : {2021, 2022, 2024}, median_year : {float(0), float(1000), float(1100),
                                             float(990), Rat(1991, 2)},
     n : {1}]

Trends == SeqsUpTo(TrendPoints, MaxPoints)

(***************************************************************************)
(* Spec: the process, from the module-level load to the requests it serves *)
(***************************************************************************)
Init ==
    \E csv \in Datasets :
        /\ df = load_data(csv)
        /\ london_stats_raw = compute_stats(load_data(csv))
        /\ london_trend_raw = compute_trend_by_year(load_data(csv))
        /\ request = [fn |-> "none", args |-> <<>>]
        /\ response = <<>>

Next == \E q \in Queries : search(q)

Spec == Init /\ [][Next]_vars

(***************************************************************************)
(* Specifications that apply one operation to an input drawn at the start  *)
(***************************************************************************)
Pending(args) ==
    /\ request = [fn |-> "pending", args |-> args]
    /\ response = <<>>

Loaded(csv) ==
    /\ df = load_data(csv)
    /\ london_stats_raw = compute_stats(load_data(csv))
    /\ london_trend_raw = compute_trend_by_year(load_data(csv))

Call(fn, result) ==
    /\ request.fn = "pending"
    /\ request' = [fn |-> fn, args |-> request.args]
    /\ response' = <<result>>
    /\ UNCHANGED <<df, london_stats_raw, london_trend_raw>>

\* SpecPostal: one postcode, given to the locator or to the handler
PostalDatasets ==
    {<<a, b, c>> \in SampleRows \X SampleRows \X SampleRows :
                   /\ a[c_annual] = Num(1000)
                   /\ b[c_annual] = Num(1100)
                   /\ c[c_annual] = Num(0)}

InitPostal ==
    \E csv \in PostalDatasets, q \in Postcodes : Loaded(csv) /\ Pending(<<q>>)

call_parse_district == Call("parse_district", parse_district(request.args[1]))

call_derive_sector ==
    /\ parse_district(request.args[1]) # None
    /\ Call("derive_sector",
            derive_sector_from_postcode(request.args[1],
                                        parse_district(request.args[1])))

serve_search ==
    /\ request.fn = "pending"
    /\ search(request.args[1])

NextPostal == call_parse_district \/ call_derive_sector \/ serve_search

SpecPostal == InitPostal /\ [][NextPostal]_vars

\* SpecNumbers: a subject and a reference median
InitNumbers ==
    \E a \in Medians, b \in Medians : Loaded(<<>>) /\ Pending(<<a, b>>)

call_verdict == Call("verdict", verdict(request.args[1], request.args[2]))

call_forecast_rows == Call("forecast_rows", forecast_rows(request.args[1]))

NextNumbers == call_verdict \/ call_forecast_rows

SpecNumbers == InitNumbers /\ [][NextNumbers]_vars

\* SpecTrend: a trend list
InitTrend == \E t \in Trends : Loaded(<<>>) /\ Pending(<<t>>)

call_add_yoy == Call("add_yoy", add_yoy(request.args[1]))

NextTrend == call_add_yoy

SpecTrend == InitTrend /\ [][NextTrend]_vars

(***************************************************************************)
(* Properties of the process (Spec)                                        *)
(***************************************************************************)
Served == response # <<>> /\ request.fn = "search"
ctx == response[1]
ServedResult == Served /\ ctx.error = None

\* the reliability tag of a row after trimming and uppercasing, from the raw column
NormalizedTag(r) == upper(strip(astype_str(r[c_reliability])))
IsLow(r) == NormalizedTag(r) = <<"L", "O", "W">>
WithoutLow(g) == SelectSeq(g, LAMBDA r : ~IsLow(r))
LowRows(g) == {i \in 1..Len(g) : IsLow(g[i])}
RemoveAt(g, i) == SubSeq(g, 1, i - 1) \o SubSeq(g, i + 1, Len(g))
ReplaceAt(g, i, r) == [g EXCEPT ![i] = r]

\* the subsets the process passes to compute_stats and compute_trend_by_year
PassedSubsets ==
    {df} \cup (IF ServedResult THEN {sector_slice(df, ctx.sector)} ELSE {})

CoercibleRows(g, c) == {i \in 1..Len(g) : ~IsLow(g[i]) /\ g[i][c][1] = "num"}

\* the k-th smallest value of field c over the rows I of g, by counting
KthSmallest(g, c, I, k) ==
    CHOOSE x \in {g[i][c][2] : i \in I} :
        /\ Cardinality({i \in I : g[i][c][2] < x}) < k
        /\ Cardinality({i \in I : g[i][c][2] <= x}) >= k

IsMedianOf(m, g, c) ==
    LET I == CoercibleRows(g, c)
        k == Cardinality(I)
    IN IF k = 0 THEN m = None
       ELSE /\ m # None
            /\ IF k % 2 = 1
               THEN m = <<KthSmallest(g, c, I, (k + 1) \div 2), 1>>
               ELSE /\ m[2] \in {1, 2}
                    /\ m[1] * 2 = m[2] * (KthSmallest(g, c, I, k \div 2)
                                          + KthSmallest(g, c, I, k \div 2 + 1))

IsStatsOf(st, g) ==
    /\ st.n = Cardinality(CoercibleRows(g, c_annual))
    /\ IsMedianOf(st.median_year, g, c_annual)
    /\ IsMedianOf(st.median_month, g, c_monthly)
    /\ IsMedianOf(st.median_psf, g, c_psf)
    /\ IsMedianOf(st.median_psm, g, c_psm)
    /\ (st.median_year = None) <=> (st.n = 0)

C9_StatsAreMedians ==
    /\ IsStatsOf(london_stats_raw, df)
    /\ ServedResult => IsStatsOf(ctx.sector_stats, sector_slice(df, ctx.sector))
    /\ compute_stats(<<>>) = [n |-> 0, median_year |-> None, median_month |-> None,
                              median_psf |-> None, median_psm |-> None]
    /\ safe_median(<<Num(100), Num(200), Num(300), Num(400)>>) = float(250)
    /\ safe_median(<<Num(400), NaN, Num(100), Txt(Str_na), Num(300), Num(200)>>)
         = float(250)

\* a served sector with an even number of amounts whose median is no integer,
\* from a dataset of three verified rows of which one has no coercible amount
C9_Witness ==
    /\ ServedResult
    /\ ctx.sector_n = 2
    /\ ctx.sector_stats.median_year = Rat(995, 2)
    /\ Len(df) = 3
    /\ london_stats_raw.n = 2
    /\ london_stats_raw.median_month = float(85)

\* C8: the benchmark year axis of a result is the ascending, duplicate-free
\* union of the sector trend's and the reference trend's years; both value
\* sequences are as long as the axis and hold, at each position, the series'
\* median of that year, or None when the series has no point for the year.
YearsOf(trend) == {trend[i].year : i \in 1..Len(trend)}

IsAligned(vals, trend, axis) ==
    /\ Len(vals) = Len(axis)
    /\ \A i \in 1..Len(axis) :
         IF axis[i] \in YearsOf(trend)
         THEN \E k \in 1..Len(trend) :
                 trend[k].year = axis[i] /\ vals[i] = trend[k].median_year
         ELSE vals[i] = None

C8_BenchmarkAxis ==
    ServedResult =>
        /\ \A i, j \in 1..Len(ctx.bench_years) :
             i < j => ctx.bench_years[i] < ctx.bench_years[j]
        /\ {ctx.bench_years[i] : i \in 1..Len(ctx.bench_years)}
             = YearsOf(ctx.trend) \cup YearsOf(london_trend_raw)
        /\ IsAligned(ctx.bench_sector, ctx.trend, ctx.bench_years)
        /\ IsAligned(ctx.bench_london, london_trend_raw, ctx.bench_years)

\* the axis is [2021, 2022, 2023] and the sector has no point for 2022
C8_Witness ==
    /\ ServedResult
    /\ ctx.bench_years = <<2021, 2022, 2023>>
    /\ ctx.bench_sector = <<float(1000), None, float(1100)>>
    /\ ctx.bench_london = <<float(1000), float(0), float(1100)>>

\* C10: no query changes the loaded dataset or the precomputed reference stats
\* and trend, which stay those computed from the dataset at startup; a query's
\* result depends on its input and on them alone, whatever was served before.
C10_QueriesMutateNothing ==
    /\ [][/\ df' = df
          /\ london_stats_raw' = london_stats_raw
          /\ london_trend_raw' = london_trend_raw]_vars
    /\ [](/\ london_stats_raw = compute_stats(df)
          /\ london_trend_raw = compute_trend_by_year(df)
          /\ Served => ctx = search_page(request.args[1]))

\* a result was served from a dataset whose reference stats differ from it
C10_Witness ==
    /\ ServedResult
    /\ ctx.sector_n >= 1
    /\ ctx.sector_stats # london_stats_raw

(***************************************************************************)
(* Properties of the verdict classifier and the forecaster (SpecNumbers)   *)
(***************************************************************************)
Called(fn) == response # <<>> /\ request.fn = fn
ret == response[1]

\* a <= b * (pct / 100) and a > b * (pct / 100) for rationals a and b
AtMostPct(a, b, pct) == 100 * a[1] * b[2] <= pct * b[1] * a[2]
AbovePct(a, b, pct) == 100 * a[1] * b[2] > pct * b[1] * a[2]

VerdictExamples(a, b) ==
    /\ (a = float(900) /\ b = float(1000)) => ret = "Low"
    /\ (a = float(901) /\ b = float(1000)) => ret = "Fair"
    /\ (a = float(1100) /\ b = float(1000)) => ret = "Fair"
    /\ (a = float(1101) /\ b = float(1000)) => ret = "High"

\* C2: verdict is a total classification with inclusive upper bounds: N/A iff
\* an input is undefined; otherwise Low iff subject <= reference x 0.90, Fair
\* iff reference x 0.90 < subject <= reference x 1.10, and High iff subject
\* exceeds both reference x 0.90 and reference x 1.10 (for a reference >= 0:
\* iff subject > reference x 1.10); 900 against 1000 is Low, 901 is Fair,
\* 1100 is Fair, 1101 is High; exactly one outcome is returned.
C2_VerdictBands ==
    Called("verdict") =>
        LET a == request.args[1]
            b == request.args[2]
        IN /\ ret \in {"N/A", "Low", "Fair", "High"}
           /\ (ret = "N/A") <=> (a = None \/ b = None)
           /\ (a # None /\ b # None) =>
                /\ (ret = "Low") <=> AtMostPct(a, b, 90)
                /\ (ret = "Fair") <=> (AbovePct(a, b, 90) /\ AtMostPct(a, b, 110))
                /\ (ret = "High") <=> (AbovePct(a, b, 90) /\ AbovePct(a, b, 110))
                /\ b[1] >= 0 => ((ret = "High") <=> AbovePct(a, b, 110))
           /\ VerdictExamples(a, b)

\* C2 as stated: High iff subject > reference x 1.10, for every pair
C2_Original ==
    Called("verdict") =>
        LET a == request.args[1]
            b == request.args[2]
        IN /\ ret \in {"N/A", "Low", "Fair", "High"}
           /\ (ret = "N/A") <=> (a = None \/ b = None)
           /\ (a # None /\ b # None) =>
                /\ (ret = "Low") <=> AtMostPct(a, b, 90)
                /\ (ret = "Fair") <=> (AbovePct(a, b, 90) /\ AtMostPct(a, b, 110))
                /\ (ret = "High") <=> AbovePct(a, b, 110)
           /\ VerdictExamples(a, b)

\* a negative reference: -1000 against -1000 was classified Low although it
\* exceeds reference x 1.10 = -1100
C2_Witness ==
    /\ Called("verdict")
    /\ request.args = <<float(-1000), float(-1000)>>
    /\ ret = "Low"
    /\ AbovePct(request.args[1], request.args[2], 110)

\* num / (den * base ^ exp) * 100 is within 1 of cents
WithinACent(v, cents) ==
    LET scaled == BigMul(v.num, 100)
        unit == BigMulPow(Big(v.den), v.base, v.exp)
    IN /\ BigLe(BigMul(unit, cents - 1), scaled)
       /\ BigLe(scaled, BigMul(unit, cents + 1))

\* C6: for a defined base forecast_rows returns exactly FORECAST_YEARS pairs
\* (i, base x 1.03^i), i = 1, 2, ..., 5 in this order: the first value is
\* base x 103/100 and each later value is 103/100 times the one before; base
\* 1000 gives 1030.00 at year 1 and 1159.27 at year 5 up to a cent.  For an
\* undefined base it returns the empty sequence.
C6_ForecastRows ==
    Called("forecast_rows") =>
        LET base0 == request.args[1]
        IN IF base0 = None THEN ret = <<>>
           ELSE /\ Len(ret) = 5
                /\ \A i \in 1..Len(ret) :
                     /\ ret[i][1] = i
                     /\ ret[i][2].neg = (base0[1] < 0)
                     /\ ret[i][2].den = base0[2]
                     /\ ret[i][2].base = 100
                     /\ ret[i][2].exp = i
                     /\ ret[i][2].num =
                          BigMul(IF i = 1 THEN Big(Abs(base0[1])) ELSE ret[i - 1][2].num,
                                 103)
                /\ base0 = float(1000) =>
                     /\ WithinACent(ret[1][2], 103000)
                     /\ WithinACent(ret[5][2], 115927)
                     /\ ~WithinACent(ret[5][2], 115929)

\* the forecast of base 1000 was computed
C6_Witness ==
    /\ Called("forecast_rows")
    /\ request.args[1] = float(1000)
    /\ Len(ret) = 5
    /\ ret[5][1] = 5

(***************************************************************************)
(* Properties of add_yoy (SpecTrend)                                       *)
(***************************************************************************)
\* C7: add_yoy keeps the length, the order and the year, median and count of
\* every point; the yoy of the first point is undefined, so is the yoy of a
\* point whose preceding point has median zero; every other yoy is
\* (median - preceding median) / preceding median x 100, the preceding point
\* being the one before it in the sequence whatever its year; medians 1000,
\* 1100, 990 give undefined, 10, -10.
C7_AddYoY ==
    Called("add_yoy") =>
        LET t == request.args[1]
        IN /\ Len(ret) = Len(t)
           /\ \A i \in 1..Len(t) :
                /\ ret[i].year = t[i].year
                /\ ret[i].median_year = t[i].median_year
                /\ ret[i].n = t[i].n
                /\ IF i = 1 THEN ret[i].yoy = None
                   ELSE LET p == t[i - 1].median_year
                            c == t[i].median_year
                        IN IF p[1] = 0 THEN ret[i].yoy = None
                           ELSE /\ ret[i].yoy # None
                                /\ ret[i].yoy[2] > 0
                                /\ ret[i].yoy[1] * (c[2] * p[1])
                                     = ret[i].yoy[2] * 100 * (c[1] * p[2] - p[1] * c[2])
           /\ (Len(t) = 3 /\ t[1].median_year = float(1000)
               /\ t[2].median_year = float(1100) /\ t[3].median_year = float(990)) =>
                /\ ret[1].yoy = None
                /\ ret[2].yoy = float(10)
                /\ ret[3].yoy = float(-10)

\* medians 1000, 1100, 990 over the years 2021, 2022, 2024
C7_Witness ==
    /\ Called("add_yoy")
    /\ Len(ret) = 3
    /\ <<ret[1].year, ret[2].year, ret[3].year>> = <<2021, 2022, 2024>>
    /\ <<ret[1].median_year, ret[2].median_year, ret[3].median_year>>
         = <<float(1000), float(1100), float(990)>>
    /\ ret[3].yoy = float(-10)

\* a point after a point of median zero
C7_WitnessZero ==
    /\ Called("add_yoy")
    /\ Len(ret) = 2
    /\ ret[1].median_year = float(0)
    /\ ret[2].median_year = float(1000)
    /\ ret[2].yoy = None

(***************************************************************************)
(* Properties of the postal locator and of the handler's errors            *)
(* (SpecPostal)                                                            *)
(***************************************************************************)
\* the shape of a string: the classes of its characters once trimmed, a run of
\* whitespace counting once
ClassOf(c) ==
    IF IsLetter(c) THEN "L" ELSE IF IsDigit(c) THEN "D"
    ELSE IF IsSpace(c) THEN "S" ELSE "X"

RECURSIVE Squeeze(_)
Squeeze(cs) ==
    IF Len(cs) < 2 THEN cs
    ELSE IF cs[1] = "S" /\ cs[2] = "S" THEN Squeeze(Tail(cs))
         ELSE <<cs[1]>> \o Squeeze(Tail(cs))

FirstNonSpace(q) == CHOOSE i \in 1..Len(q) : ~IsSpace(q[i]) /\ \A j \in 1..(i - 1) : IsSpace(q[j])
LastNonSpace(q) == CHOOSE i \in 1..Len(q) : ~IsSpace(q[i]) /\ \A j \in (i + 1)..Len(q) : IsSpace(q[j])
IsBlank(q) == \A i \in 1..Len(q) : IsSpace(q[i])
Trimmed(q) == IF IsBlank(q) THEN <<>> ELSE SubSeq(q, FirstNonSpace(q), LastNonSpace(q))

ShapeOf(q) == Squeeze([i \in 1..Len(Trimmed(q)) |-> ClassOf(Trimmed(q)[i])])

OutwardShapes ==
    { <<"L", "D">>, <<"L", "D", "D">>, <<"L", "L", "D">>, <<"L", "L", "D", "D">>,
      <<"L", "D", "L">>, <<"L", "D", "D", "L">>, <<"L", "L", "D", "L">>,
      <<"L", "L", "D", "D", "L">> }
InwardShape == <<"D", "L", "L">>

SpacedShapes == {o \o <<"S">> \o InwardShape : o \in OutwardShapes}
UnspacedShapes == {o \o InwardShape : o \in OutwardShapes}

\* the outward part of a string of an accepted shape, uppercased: what precedes
\* the whitespace, or all but the last three characters when there is none
OutwardOf(q) ==
    LET t == Trimmed(q)
        cut == IF \E i \in 1..Len(t) : IsSpace(t[i])
               THEN (CHOOSE i \in 1..Len(t) :
                        IsSpace(t[i]) /\ \A j \in 1..(i - 1) : ~IsSpace(t[j])) - 1
               ELSE Len(t) - 3
    IN [i \in 1..cut |-> UpperChar(t[i])]

FirstInwardDigit(q) == Trimmed(q)[Len(Trimmed(q)) - 2]

\* C4: parse_district accepts an input iff, trimmed and ignoring case, it is
\* one or two letters, one or two digits, an optional letter, then optional
\* whitespace (none, or a run of it), then a digit and two letters; an input
\* with no whitespace between the outward and the inward part is accepted;
\* every other input, "ZZZZ" among them, is rejected.  On acceptance the
\* district is the uppercased outward group.
C4_FormatCheck ==
    Called("parse_district") =>
        LET q == request.args[1]
        IN /\ (ret # None) <=> (ShapeOf(q) \in SpacedShapes \cup UnspacedShapes)
           /\ ret # None => ret = OutwardOf(q)
           /\ q = <<"Z", "Z", "Z", "Z">> => ret = None

\* C4 as stated: whitespace is required between outward and inward part
C4_Original ==
    Called("parse_district") =>
        LET q == request.args[1]
        IN /\ (ret # None) <=> (ShapeOf(q) \in SpacedShapes)
           /\ ret # None => ret = OutwardOf(q)
           /\ q = <<"Z", "Z", "Z", "Z">> => ret = None

\* "A19AA", with no whitespace, was accepted with district "A1"
C4_Witness ==
    /\ Called("parse_district")
    /\ request.args[1] = <<"A", "1", "9", "A", "A">>
    /\ ret = <<"A", "1">>

Locate(q) ==
    IF parse_district(q) = None THEN None
    ELSE derive_sector_from_postcode(q, parse_district(q))

\* C5: a derived sector is the uppercase string "<district> <first inward
\* digit>", so it depends on the district and that digit alone; parse_district
\* and parse_district followed by derive_sector_from_postcode give the same
\* result for the input as given, normalized once and normalized twice.
C5_SectorKey ==
    /\ Called("derive_sector") =>
         LET q == request.args[1]
         IN /\ ret # None =>
                 /\ ret = OutwardOf(q) \o <<" ">> \o <<FirstInwardDigit(q)>>
                 /\ ret = parse_district(q) \o <<" ">> \o <<FirstInwardDigit(q)>>
                 /\ \A i \in 1..Len(ret) : ret[i] \notin LowerLetters
            /\ Locate(normalize(q)) = ret
            /\ Locate(normalize(normalize(q))) = ret
    /\ Called("parse_district") =>
         LET q == request.args[1]
         IN /\ parse_district(normalize(q)) = ret
            /\ parse_district(normalize(normalize(q))) = ret

\* a padded, lowercase, double-spaced input whose normal form changes under a
\* second normalization got the sector "A1 9"
C5_Witness ==
    /\ Called("derive_sector")
    /\ request.args[1] = <<"\t", "A", "1", " ", " ", " ", " ", "9", "A", "A", " ", " ">>
    /\ normalize(normalize(request.args[1])) # normalize(request.args[1])
    /\ ret = <<"A", "1", " ", "9">>

\* C3: a query ends in an error in exactly three cases, in this order:
\* EmptyInput iff the trimmed input is empty; else InvalidFormat iff the
\* postal-code shape does not match; else SectorDerivationFailed iff the
\* inward digit cannot be extracted (no whitespace precedes it).  An error
\* page carries no sector, statistics, verdict, forecast or trend.  Every
\* other input yields a result, also when no record has its sector.
ResultFields ==
    {"postcode", "postcode_display", "error", "sector", "district", "sector_stats",
     "sector_n", "london_stats", "verdict", "year5", "forecast_rows", "trend",
     "bench_years", "bench_sector", "bench_london"}

C3_QueryErrors ==
    (response # <<>> /\ request.fn = "search") =>
        LET q == request.args[1]
            page == response[1]
        IN /\ page.error \in {None, ERR_EMPTY, ERR_FORMAT, ERR_SECTOR}
           /\ (page.error = ERR_EMPTY) <=> IsBlank(q)
           /\ (page.error = ERR_FORMAT) <=>
                (~IsBlank(q) /\ ShapeOf(q) \notin SpacedShapes \cup UnspacedShapes)
           /\ (page.error = ERR_SECTOR) <=> (ShapeOf(q) \in UnspacedShapes)
           /\ (page.error = None) <=> (ShapeOf(q) \in SpacedShapes)
           /\ page.error # None =>
                /\ DOMAIN page = {"postcode", "error", "sector"}
                /\ page.sector = None
           /\ page.error = None =>
                /\ DOMAIN page = ResultFields
                /\ page.sector = OutwardOf(q) \o <<" ">> \o <<FirstInwardDigit(q)>>
                /\ page.sector_n = Cardinality(
                       {i \in 1..Len(df) :
                          /\ ~IsLow(df[i])
                          /\ df[i][c_annual][1] = "num"
                          /\ upper(strip(astype_str(df[i][c_sector]))) = page.sector})
                /\ page.sector_n = 0 =>
                     /\ page.sector_stats.median_year = None
                     /\ page.verdict = "N/A"
                     /\ page.forecast_rows = <<>>
                     /\ page.trend = <<>>

\* a well-formed postcode whose sector has no record was served a result
C3_Witness ==
    /\ response # <<>> /\ request.fn = "search"
    /\ df # <<>>
    /\ response[1].error = None
    /\ response[1].sector = <<"A", "1", " ", "1">>
    /\ response[1].sector_n = 0

\* a postcode of the right shape without whitespace ended in the third error
C3_WitnessSectorError ==
    /\ response # <<>> /\ request.fn = "search"
    /\ response[1].error = ERR_SECTOR

(***************************************************************************)
(* Properties of the trend builder and of the year resolution (Spec)       *)
(***************************************************************************)
\* the verified rows of g of year y with a coercible annual amount
TrendRows(g, y) ==
    {i \in 1..Len(g) :
        ~IsLow(g[i]) /\ g[i]["_year"] = Num(y) /\ g[i][c_annual][1] = "num"}

\* the years resolved for the verified rows of g
ResolvedYears(g) ==
    {g[i]["_year"][2] : i \in {j \in 1..Len(g) : ~IsLow(g[j]) /\ g[j]["_year"][1] = "num"}}

IsMedianOfRows(m, g, c, I) ==
    LET k == Cardinality(I)
    IN /\ m # None
       /\ IF k % 2 = 1
          THEN m = <<KthSmallest(g, c, I, (k + 1) \div 2), 1>>
          ELSE /\ m[2] \in {1, 2}
               /\ m[1] * 2 = m[2] * (KthSmallest(g, c, I, k \div 2)
                                     + KthSmallest(g, c, I, k \div 2 + 1))

IsTrendOf(t, g) ==
    /\ \A i, j \in 1..Len(t) : i < j => t[i].year < t[j].year
    /\ YearsOf(t) = {y \in ResolvedYears(g) : TrendRows(g, y) # {}}
    /\ \A k \in 1..Len(t) :
         /\ t[k].n >= 1
         /\ t[k].n = Cardinality(TrendRows(g, t[k].year))
         /\ IsMedianOfRows(t[k].median_year, g, c_annual, TrendRows(g, t[k].year))
    /\ ResolvedYears(g) = {} => t = <<>>

\* C11: compute_trend_by_year returns a sequence ascending by year with exactly
\* one point for each year in which a verified row of the subset with a
\* resolved year has a coercible annual amount, and no point for any other
\* year; a point's median and count are those of the coercible amounts of its
\* year's verified rows, so every count is >= 1; the sequence is empty when no
\* verified row has a resolved year.
C11_TrendByYear ==
    /\ IsTrendOf(london_trend_raw, df)
    /\ london_trend_raw = compute_trend_by_year(df)
    /\ ServedResult => IsTrendOf(ctx.trend, sector_slice(df, ctx.sector))

\* a reference trend of one point, for 2021, from two amounts, although a
\* verified row of the dataset is of 2022: its amount is not coercible
C11_Witness ==
    /\ Len(london_trend_raw) = 1
    /\ london_trend_raw[1].year = 2021
    /\ london_trend_raw[1].n = 2
    /\ \E i \in 1..Len(df) :
         /\ ~IsLow(df[i])
         /\ df[i]["_year"] = Num(2022)
         /\ df[i][c_annual][1] # "num"

\* C12: the source of the year is one choice for the whole dataset, made at
\* load: if a record of the dataset has a numeric vintage year, every record's
\* year is its vintage year and a record without one has no year, whatever its
\* end date, and is in no trend; only if no record has a numeric vintage year
\* is every record's year that of its billing-period end date.
AnyVintage == \E i \in 1..Len(df) : df[i][c_year][1] = "num"

SourceYear(r) ==
    IF AnyVintage
    THEN IF r[c_year][1] = "num" THEN Num(r[c_year][2]) ELSE NaN
    ELSE IF r[c_end][1] = "date" THEN Num(r[c_end][2]) ELSE NaN

SourceRows(g, y) ==
    {i \in 1..Len(g) :
        ~IsLow(g[i]) /\ SourceYear(g[i]) = Num(y) /\ g[i][c_annual][1] = "num"}

TrendUsesSource(t, g) ==
    /\ \A k \in 1..Len(t) : t[k].n = Cardinality(SourceRows(g, t[k].year))
    /\ \A i \in 1..Len(g) :
         (~IsLow(g[i]) /\ g[i][c_annual][1] = "num") =>
            IF SourceYear(g[i]) = NaN THEN TRUE
            ELSE SourceYear(g[i])[2] \in YearsOf(t)
    /\ \A y \in YearsOf(t) : SourceRows(g, y) # {}

C12_YearResolution ==
    /\ \A i \in 1..Len(df) : df[i]["_year"] = SourceYear(df[i])
    /\ TrendUsesSource(london_trend_raw, df)
    /\ ServedResult => TrendUsesSource(ctx.trend, sector_slice(df, ctx.sector))

\* a verified record with an amount and an end date but no numeric vintage
\* year, in a dataset where another record has one: it has no year and its
\* end-date year is in no trend
C12_Witness ==
    /\ AnyVintage
    /\ \E i \in 1..Len(df) :
         /\ ~IsLow(df[i])
         /\ df[i][c_annual][1] = "num"
         /\ df[i][c_year][1] # "num"
         /\ df[i][c_end][1] = "date"
         /\ df[i]["_year"] = NaN
         /\ df[i][c_end][2] \notin YearsOf(london_trend_raw)

\* a dataset without any numeric vintage year, its trend from the end dates
C12_WitnessFallback ==
    /\ ~AnyVintage
    /\ london_trend_raw # <<>>
    /\ \E i \in 1..Len(df) : IsLow(df[i])

====
